---- MODULE Spec2Model ----
(***************************************************************************)
(* ESIUpdatedDiscordAnnouncer: scripts/check_esi_update.py.                *)
(*                                                                         *)
(* A Python str is a sequence of one-character strings, so that parsing,   *)
(* stripping and ordering are computed on the text.  None is a value that  *)
(* is no such sequence.                                                    *)
(***************************************************************************)
EXTENDS Integers, Sequences, FiniteSets, TLC

(***************************************************************************)
(* Bounds of the model.                                                    *)
(***************************************************************************)
\* longest date list handed to get_latest_date when it is called on its own
MaxDates == 3
\* longest date list the upstream API publishes in the runs of main()
MaxUpstreamDates == 1

(***************************************************************************)
(* Text.                                                                   *)
(***************************************************************************)
None == <<"None">>

Y2024 == <<"2", "0", "2", "4">>
D_0501 == Y2024 \o <<"-", "0", "5", "-", "0", "1">>
D_0615 == Y2024 \o <<"-", "0", "6", "-", "1", "5">>
D_1001 == Y2024 \o <<"-", "1", "0", "-", "0", "1">>
\* months and days without the leading zero, which strptime accepts
D_65 == Y2024 \o <<"-", "6", "-", "5">>
\* 30 February: the text has the shape of a date and is none
D_0230 == Y2024 \o <<"-", "0", "2", "-", "3", "0">>
T_1230Z == <<"T", "1", "2", ":", "3", "0", "Z">>
D_0615T == D_0615 \o T_1230Z
D_0615T_sp == D_0615T \o <<" ">>
D_0615_sp == D_0615 \o <<" ">>
D_0501_nl == D_0501 \o <<"\n">>
NotADate == <<"n", "o", "t", "-", "a", "-", "d", "a", "t", "e">>
Empty == <<>>

\* the date strings an upstream payload is built from
DateStrings == {D_0501, D_0615, D_1001, D_65, D_0230, D_0615T, D_0615T_sp, D_0615_sp,
                NotADate, Empty}

Digits == {"0", "1", "2", "3", "4", "5", "6", "7", "8", "9"}

DigitVal(c) ==
    CASE c = "0" -> 0 [] c = "1" -> 1 [] c = "2" -> 2 [] c = "3" -> 3 [] c = "4" -> 4
      [] c = "5" -> 5 [] c = "6" -> 6 [] c = "7" -> 7 [] c = "8" -> 8 [] c = "9" -> 9

\* the code point of a character: str comparison orders by it
Ord(c) ==
    CASE c = "\n" -> 10 [] c = " " -> 32 [] c = "-" -> 45
      [] c \in Digits -> 48 + DigitVal(c)
      [] c = ":" -> 58 [] c = "T" -> 84 [] c = "Z" -> 90
      [] c = "a" -> 97 [] c = "d" -> 100 [] c = "e" -> 101
      [] c = "n" -> 110 [] c = "o" -> 111 [] c = "t" -> 116

\* str.__lt__: lexicographic by code point, a proper prefix first
RECURSIVE StrLess(_, _)
StrLess(a, b) ==
    IF b = <<>> THEN FALSE
    ELSE IF a = <<>> THEN TRUE
    ELSE IF Head(a) # Head(b) THEN Ord(Head(a)) < Ord(Head(b))
    ELSE StrLess(Tail(a), Tail(b))

IsSpace(c) == c \in {" ", "\n"}

RECURSIVE LStrip(_)
LStrip(s) == IF s # <<>> /\ IsSpace(Head(s)) THEN LStrip(Tail(s)) ELSE s

RECURSIVE RStrip(_)
RStrip(s) ==
    IF s # <<>> /\ IsSpace(s[Len(s)]) THEN RStrip(SubSeq(s, 1, Len(s) - 1)) ELSE s

\* str.strip()
Strip(s) == RStrip(LStrip(s))

\* the index of the first c in s, 0 when there is none
RECURSIVE IndexFrom(_, _, _)
IndexFrom(s, c, i) ==
    IF i > Len(s) THEN 0 ELSE IF s[i] = c THEN i ELSE IndexFrom(s, c, i + 1)

IndexOf(s, c) == IndexFrom(s, c, 1)

\* bool(str)
Truthy(s) == s # None /\ s # <<>>

(***************************************************************************)
(* datetime.strptime(s, "%Y-%m-%d")                                        *)
(***************************************************************************)
NoDate == [ok |-> FALSE, y |-> 0, m |-> 0, d |-> 0]

IsLeap(y) == (y % 4 = 0 /\ y % 100 # 0) \/ y % 400 = 0

DaysInMonth(y, m) ==
    IF m = 2 THEN (IF IsLeap(y) THEN 29 ELSE 28)
    ELSE IF m \in {4, 6, 9, 11} THEN 30 ELSE 31

\* %m is 1[0-2]|0[1-9]|[1-9]; 0 when the text is none of them
MonthField(t) ==
    IF Len(t) = 1 /\ t[1] \in Digits \ {"0"} THEN DigitVal(t[1])
    ELSE IF Len(t) = 2 /\ t[1] = "0" /\ t[2] \in Digits \ {"0"} THEN DigitVal(t[2])
    ELSE IF Len(t) = 2 /\ t[1] = "1" /\ t[2] \in {"0", "1", "2"} THEN 10 + DigitVal(t[2])
    ELSE 0

\* %d is 3[01]|[12]\d|0[1-9]|[1-9]| [1-9]; 0 when the text is none of them
DayField(t) ==
    IF Len(t) = 1 /\ t[1] \in Digits \ {"0"} THEN DigitVal(t[1])
    ELSE IF Len(t) = 2 /\ t[1] \in {"0", " "} /\ t[2] \in Digits \ {"0"} THEN DigitVal(t[2])
    ELSE IF Len(t) = 2 /\ t[1] \in {"1", "2"} /\ t[2] \in Digits
         THEN 10 * DigitVal(t[1]) + DigitVal(t[2])
    ELSE IF Len(t) = 2 /\ t[1] = "3" /\ t[2] \in {"0", "1"} THEN 30 + DigitVal(t[2])
    ELSE 0

strptime(s) ==
    IF Len(s) < 5 \/ (\E i \in 1..4 : s[i] \notin Digits) \/ s[5] # "-" THEN NoDate
    ELSE LET rest == SubSeq(s, 6, Len(s))
             dash == IndexOf(rest, "-")
         IN  IF dash = 0 THEN NoDate
             ELSE LET y == 1000 * DigitVal(s[1]) + 100 * DigitVal(s[2])
                           + 10 * DigitVal(s[3]) + DigitVal(s[4])
                      m == MonthField(SubSeq(rest, 1, dash - 1))
                      d == DayField(SubSeq(rest, dash + 1, Len(rest)))
                  IN  IF y = 0 \/ m = 0 \/ d = 0 THEN NoDate
                      ELSE IF d > DaysInMonth(y, m) THEN NoDate
                      ELSE [ok |-> TRUE, y |-> y, m |-> m, d |-> d]

(***************************************************************************)
(* parse_iso_date: ok = FALSE is the ValueError                            *)
(***************************************************************************)
parse_iso_date(date_str) ==
    LET simple == strptime(date_str)
        t == IndexOf(date_str, "T")
    IN  IF simple.ok THEN simple
        ELSE IF t # 0 THEN strptime(SubSeq(date_str, 1, t - 1))
        ELSE NoDate

\* datetime.__lt__ on two parsed dates
DateLess(a, b) ==
    \/ a.y < b.y
    \/ a.y = b.y /\ a.m < b.m
    \/ a.y = b.y /\ a.m = b.m /\ a.d < b.d

(***************************************************************************)
(* JSON values the upstream can send.  A dict is told by whether it holds  *)
(* 'compatibility_dates', whether that value is a list, and whether it     *)
(* holds another key.                                                      *)
(***************************************************************************)
JList(dates) ==
    [kind |-> "list", dates |-> dates, hasKey |-> FALSE, valIsList |-> FALSE,
     otherKey |-> FALSE]

JDict(dates) ==
    [kind |-> "dict", dates |-> dates, hasKey |-> TRUE, valIsList |-> TRUE,
     otherKey |-> FALSE]

\* {"compatibility_dates": "2024-05-01"}: the value is no list
JDictNoList ==
    [kind |-> "dict", dates |-> <<>>, hasKey |-> TRUE, valIsList |-> FALSE,
     otherKey |-> FALSE]

\* {"other_key": [...]}
JDictOtherKey ==
    [kind |-> "dict", dates |-> <<>>, hasKey |-> FALSE, valIsList |-> FALSE,
     otherKey |-> TRUE]

\* {}
JDictEmpty ==
    [kind |-> "dict", dates |-> <<>>, hasKey |-> FALSE, valIsList |-> FALSE,
     otherKey |-> FALSE]

\* None / null
JNull ==
    [kind |-> "null", dates |-> <<>>, hasKey |-> FALSE, valIsList |-> FALSE,
     otherKey |-> FALSE]

\* "invalid": a non-empty string
JString ==
    [kind |-> "str", dates |-> <<>>, hasKey |-> FALSE, valIsList |-> FALSE,
     otherKey |-> FALSE]

DateLists(n) == UNION {[1..k -> DateStrings] : k \in 0..n}

JOthers == {JDictNoList, JDictOtherKey, JDictEmpty, JNull, JString}

Payloads(n) ==
    {JList(ds) : ds \in DateLists(n)} \cup {JDict(ds) : ds \in DateLists(n)} \cup JOthers

\* bool(dates_data)
JTruthy(j) ==
    CASE j.kind = "list" -> j.dates # <<>>
      [] j.kind = "dict" -> j.hasKey \/ j.otherKey
      [] j.kind = "null" -> FALSE
      [] OTHER -> TRUE

(***************************************************************************)
(* extract_compatibility_dates: ok = FALSE is the ValueError               *)
(***************************************************************************)
extract_compatibility_dates(dates_data) ==
    IF dates_data.kind = "list" THEN [ok |-> TRUE, dates |-> dates_data.dates]
    ELSE IF dates_data.kind = "dict" THEN
        IF ~dates_data.hasKey THEN [ok |-> FALSE, dates |-> <<>>]
        ELSE IF ~dates_data.valIsList THEN [ok |-> FALSE, dates |-> <<>>]
        ELSE [ok |-> TRUE, dates |-> dates_data.dates]
    ELSE [ok |-> FALSE, dates |-> <<>>]

(***************************************************************************)
(* list.sort(key=...) and sorted(): stable insertion into a sorted list    *)
(***************************************************************************)
\* x goes behind every entry whose date is not later than its own
RECURSIVE InsertByDate(_, _)
InsertByDate(sorted, x) ==
    IF sorted = <<>> THEN <<x>>
    ELSE IF DateLess(parse_iso_date(x), parse_iso_date(Head(sorted)))
         THEN <<x>> \o sorted
    ELSE <<Head(sorted)>> \o InsertByDate(Tail(sorted), x)

RECURSIVE SortByDate(_)
SortByDate(dates) ==
    IF dates = <<>> THEN <<>>
    ELSE InsertByDate(SortByDate(SubSeq(dates, 1, Len(dates) - 1)), dates[Len(dates)])

RECURSIVE InsertByStr(_, _)
InsertByStr(sorted, x) ==
    IF sorted = <<>> THEN <<x>>
    ELSE IF StrLess(x, Head(sorted)) THEN <<x>> \o sorted
    ELSE <<Head(sorted)>> \o InsertByStr(Tail(sorted), x)

RECURSIVE SortByStr(_)
SortByStr(dates) ==
    IF dates = <<>> THEN <<>>
    ELSE InsertByStr(SortByStr(SubSeq(dates, 1, Len(dates) - 1)), dates[Len(dates)])

Last(s) == s[Len(s)]

(***************************************************************************)
(* get_latest_date                                                         *)
(***************************************************************************)
\* a plausible slip: the first entry of the sorted list instead of the last
get_latest_date_first(dates_data) ==
    IF ~JTruthy(dates_data) THEN None
    ELSE LET ex == extract_compatibility_dates(dates_data)
         IN  IF ~ex.ok \/ ex.dates = <<>> THEN None
             ELSE IF \A i \in 1..Len(ex.dates) : parse_iso_date(ex.dates[i]).ok
                  THEN Head(SortByDate(ex.dates))
             ELSE Head(SortByStr(ex.dates))

get_latest_date(dates_data) ==
    IF ~JTruthy(dates_data) THEN None
    ELSE LET ex == extract_compatibility_dates(dates_data)
         IN  IF ~ex.ok THEN None
             ELSE IF ex.dates = <<>> THEN None
             ELSE IF \A i \in 1..Len(ex.dates) : parse_iso_date(ex.dates[i]).ok
                  THEN Last(SortByDate(ex.dates))
             ELSE Last(SortByStr(ex.dates))

(***************************************************************************)
(* The state file and the state store                                      *)
(***************************************************************************)
NoFile == [exists |-> FALSE, content |-> Empty]

FileWith(s) == [exists |-> TRUE, content |-> s]

\* fault: open() or read() raises
read_last_known_date(f, fault) ==
    IF ~f.exists THEN None
    ELSE IF fault THEN None
    ELSE LET content == Strip(f.content)
         IN  IF content # <<>> THEN content ELSE None

WriteOutcomes == {"ok", "open_fails", "write_fails"}

\* a plausible slip: the file is opened with 'a', the date lands behind the old text
write_latest_date_append(f, date, outcome) ==
    CASE outcome = "ok" -> [file |-> FileWith(f.content \o date), exit |-> FALSE]
      [] outcome = "open_fails" -> [file |-> f, exit |-> TRUE]
      [] outcome = "write_fails" -> [file |-> f, exit |-> TRUE]

\* a plausible slip: the date is written with a newline behind it
write_latest_date_newline(f, date, outcome) ==
    CASE outcome = "ok" -> [file |-> FileWith(date \o <<"\n">>), exit |-> FALSE]
      [] outcome = "open_fails" -> [file |-> f, exit |-> TRUE]
      [] outcome = "write_fails" -> [file |-> FileWith(Empty), exit |-> TRUE]

\* open(path, 'w') truncates the file before anything is written; exit is sys.exit(1)
write_latest_date(f, date, outcome) ==
    CASE outcome = "ok" -> [file |-> FileWith(date), exit |-> FALSE]
      [] outcome = "open_fails" -> [file |-> f, exit |-> TRUE]
      [] outcome = "write_fails" -> [file |-> FileWith(Empty), exit |-> TRUE]

(***************************************************************************)
(* fetch_esi_compatibility_dates                                           *)
(***************************************************************************)
\* what the GET meets: a transport or HTTP error, a body that is no JSON, a JSON value
NetErrors == {"URLError", "HTTPError"}

RespError(e) == [net |-> e, json |-> FALSE, value |-> JNull]

RespBadJson == [net |-> "ok", json |-> FALSE, value |-> JNull]

RespJson(v) == [net |-> "ok", json |-> TRUE, value |-> v]

Responses(n) ==
    {RespError(e) : e \in NetErrors} \cup {RespBadJson} \cup {RespJson(v) : v \in Payloads(n)}

\* a plausible slip: a bare list is let through as well
fetch_esi_compatibility_dates_any(resp) ==
    IF resp.net # "ok" THEN [exit |-> TRUE, data |-> JNull]
    ELSE IF ~resp.json THEN [exit |-> TRUE, data |-> JNull]
    ELSE IF resp.value.kind \notin {"dict", "list"} THEN [exit |-> TRUE, data |-> JNull]
    ELSE [exit |-> FALSE, data |-> resp.value]

\* exit is sys.exit(1)
fetch_esi_compatibility_dates(resp) ==
    IF resp.net # "ok" THEN [exit |-> TRUE, data |-> JNull]
    ELSE IF ~resp.json THEN [exit |-> TRUE, data |-> JNull]
    ELSE IF resp.value.kind # "dict" THEN [exit |-> TRUE, data |-> JNull]
    ELSE [exit |-> FALSE, data |-> resp.value]

(***************************************************************************)
(* post_to_discord                                                         *)
(***************************************************************************)
WebhookUrl == <<"u">>

\* what the POST meets: a response with a status, or an error raised by urlopen
PostOutcomes ==
    {[raised |-> "none", status |-> st] : st \in {204, 429, 200}}
    \cup {[raised |-> e, status |-> 0] : e \in NetErrors}

\* a plausible slip: the except branches log the error and forget sys.exit(1)
post_to_discord_lenient(webhook_url, outcome) ==
    IF ~Truthy(webhook_url) THEN [posted |-> FALSE, exit |-> TRUE]
    ELSE [posted |-> TRUE, exit |-> FALSE]

\* a plausible slip: a status other than 204 ends the run like an error does
post_to_discord_strict(webhook_url, outcome) ==
    IF ~Truthy(webhook_url) THEN [posted |-> FALSE, exit |-> TRUE]
    ELSE IF outcome.raised # "none" THEN [posted |-> TRUE, exit |-> TRUE]
    ELSE [posted |-> TRUE, exit |-> outcome.status # 204]

\* posted: the request went out; exit: sys.exit(1)
post_to_discord(webhook_url, outcome) ==
    IF ~Truthy(webhook_url) THEN [posted |-> FALSE, exit |-> TRUE]
    ELSE IF outcome.raised = "none" THEN
        IF outcome.status = 204 THEN [posted |-> TRUE, exit |-> FALSE]
        ELSE IF outcome.status = 429 THEN [posted |-> TRUE, exit |-> FALSE]
        ELSE [posted |-> TRUE, exit |-> FALSE]
    ELSE IF outcome.raised = "HTTPError" THEN [posted |-> TRUE, exit |-> TRUE]
    ELSE [posted |-> TRUE, exit |-> TRUE]

(***************************************************************************)
(* State.                                                                  *)
(*   upstream        what the ESI endpoint answers at present              *)
(*   file            last_esi_date.txt                                     *)
(*   pc              where the run of main() stands                        *)
(*   webhook         os.environ.get("DISCORD_WEBHOOK_URL")                 *)
(*   force_post, always_success      the flags of parse_args()             *)
(*   dates_data, latest_date, last_known_date, date_changed   main's locals*)
(*   trace           the POSTs and the calls of write_latest_date of the   *)
(*                   run, in order                                         *)
(*   read_fault, post_outcome, write_outcome    what the read of the file, *)
(*                   the POST and the write met                            *)
(*   exit_code       -1 while the run goes on                              *)
(*   file_at_start   the file as the run found it                          *)
(*   announced       an earlier run exited 0 having written its latest     *)
(*                   date, and neither the file nor the upstream changed   *)
(*                   behind it                                             *)
(*   ucall, uprev, udata, ustr, ures  a function called on its own: the    *)
(*                   call, the call before it, its arguments, its result   *)
(***************************************************************************)
VARIABLES upstream, file, pc, webhook, force_post, always_success, dates_data,
          latest_date, last_known_date, date_changed, trace, read_fault,
          post_outcome, write_outcome, exit_code, file_at_start, announced,
          ucall, uprev, udata, ustr, ures

envvars == <<upstream, file, announced>>

runvars == <<pc, webhook, force_post, always_success, dates_data, latest_date,
             last_known_date, date_changed, trace, read_fault, post_outcome,
             write_outcome, exit_code, file_at_start>>

unitvars == <<ucall, uprev, udata, ustr, ures>>

vars == <<envvars, runvars, unitvars>>

NoOutcome == [raised |-> "none", status |-> 0]

\* the files a run can find: none, an empty one, a date with or without a newline
InitialFiles == {NoFile, FileWith(Empty), FileWith(D_0501_nl), FileWith(D_0615)}

\* main's locals before the run has set them
RunIdle ==
    /\ pc = "idle"
    /\ webhook = None
    /\ force_post = FALSE
    /\ always_success = FALSE
    /\ dates_data = JNull
    /\ latest_date = None
    /\ last_known_date = None
    /\ date_changed = FALSE
    /\ trace = <<>>
    /\ read_fault = FALSE
    /\ post_outcome = NoOutcome
    /\ write_outcome = "none"
    /\ exit_code = -1
    /\ file_at_start = NoFile

UnitIdle ==
    /\ ucall = "none"
    /\ uprev = "none"
    /\ udata = JNull
    /\ ustr = None
    /\ ures = None

Init ==
    /\ upstream \in Responses(MaxUpstreamDates)
    /\ file \in InitialFiles
    /\ announced = FALSE
    /\ RunIdle
    /\ UnitIdle

(***************************************************************************)
(* main(), step by step                                                    *)
(***************************************************************************)
\* sys.exit(code), or the return of main() with code 0
Exit(code) ==
    /\ pc' = "exited"
    /\ exit_code' = code

\* line 293
DateChanged(last, latest) == last # latest

\* a plausible slip: the force flag is not looked at, every run posts
ShouldPost_always(changed, force) == TRUE

\* line 294
ShouldPost(changed, force) == changed \/ force

\* a plausible slip: the SystemExit is raised again whatever the flag says
Swallowed_never(always) == FALSE

\* lines 308-312: the SystemExit of post_to_discord is swallowed under --always-success
Swallowed(always) == always

\* a plausible slip: the date is written after every post, a forced one too
ShouldWrite_always(changed) == TRUE

\* line 314
ShouldWrite(changed) == changed

\* parse_args() and the webhook of the environment
Start ==
    /\ pc = "idle"
    /\ \E env \in {None, Empty, WebhookUrl}, f \in BOOLEAN, a \in BOOLEAN :
        /\ webhook' = env
        /\ force_post' = f
        /\ always_success' = a
        /\ IF ~Truthy(env)
           THEN Exit(1)
           ELSE pc' = "fetch" /\ exit_code' = exit_code
    /\ file_at_start' = file
    /\ UNCHANGED <<envvars, unitvars, dates_data, latest_date, last_known_date,
                   date_changed, trace, read_fault, post_outcome, write_outcome>>

Fetch ==
    /\ pc = "fetch"
    /\ LET r == fetch_esi_compatibility_dates(upstream)
       IN  IF r.exit
           THEN Exit(1) /\ dates_data' = dates_data
           ELSE pc' = "latest" /\ dates_data' = r.data /\ exit_code' = exit_code
    /\ UNCHANGED <<envvars, unitvars, webhook, force_post, always_success, latest_date,
                   last_known_date, date_changed, trace, read_fault, post_outcome,
                   write_outcome, file_at_start>>

Latest ==
    /\ pc = "latest"
    /\ latest_date' = get_latest_date(dates_data)
    /\ IF ~Truthy(latest_date')
       THEN Exit(1)
       ELSE pc' = "read" /\ exit_code' = exit_code
    /\ UNCHANGED <<envvars, unitvars, webhook, force_post, always_success, dates_data,
                   last_known_date, date_changed, trace, read_fault, post_outcome,
                   write_outcome, file_at_start>>

\* read_last_known_date and the decision of lines 293-294 and 319-320
ReadState ==
    /\ pc = "read"
    /\ \E fault \in (IF file.exists THEN BOOLEAN ELSE {FALSE}) :
        /\ read_fault' = fault
        /\ last_known_date' = read_last_known_date(file, fault)
        /\ date_changed' = DateChanged(last_known_date', latest_date)
        /\ IF ShouldPost(date_changed', force_post)
           THEN pc' = "post" /\ exit_code' = exit_code
           ELSE Exit(0)
    /\ UNCHANGED <<envvars, unitvars, webhook, force_post, always_success, dates_data,
                   latest_date, trace, post_outcome, write_outcome, file_at_start>>

\* lines 301-312
Post ==
    /\ pc = "post"
    /\ \E outcome \in PostOutcomes :
        LET r == post_to_discord(webhook, outcome)
        IN  /\ post_outcome' = outcome
            /\ trace' = IF r.posted THEN Append(trace, "POST") ELSE trace
            /\ IF r.exit /\ ~Swallowed(always_success)
               THEN Exit(1)
               ELSE pc' = "persist" /\ exit_code' = exit_code
    /\ UNCHANGED <<envvars, unitvars, webhook, force_post, always_success, dates_data,
                   latest_date, last_known_date, date_changed, read_fault, write_outcome,
                   file_at_start>>

\* lines 314-318
Persist ==
    /\ pc = "persist"
    /\ IF ShouldWrite(date_changed)
       THEN \E outcome \in WriteOutcomes :
                LET r == write_latest_date(file, latest_date, outcome)
                IN  /\ file' = r.file
                    /\ write_outcome' = outcome
                    /\ trace' = Append(trace, "WRITE")
                    /\ Exit(IF r.exit THEN 1 ELSE 0)
       ELSE /\ Exit(0)
            /\ UNCHANGED <<file, write_outcome, trace>>
    /\ UNCHANGED <<upstream, announced, unitvars, webhook, force_post, always_success,
                   dates_data, latest_date, last_known_date, date_changed, read_fault,
                   post_outcome, file_at_start>>

\* the scheduler starts the job again: the runs are serialized
NextRun ==
    /\ pc = "exited"
    /\ announced' = \/ exit_code = 0 /\ write_outcome = "ok"
                    \/ announced /\ write_outcome = "none"
    /\ pc' = "idle"
    /\ webhook' = None
    /\ force_post' = FALSE
    /\ always_success' = FALSE
    /\ dates_data' = JNull
    /\ latest_date' = None
    /\ last_known_date' = None
    /\ date_changed' = FALSE
    /\ trace' = <<>>
    /\ read_fault' = FALSE
    /\ post_outcome' = NoOutcome
    /\ write_outcome' = "none"
    /\ exit_code' = -1
    /\ file_at_start' = NoFile
    /\ UNCHANGED <<upstream, file, unitvars>>

\* between two runs the upstream publishes something else
UpstreamChanges ==
    /\ pc = "idle"
    /\ upstream' \in Responses(MaxUpstreamDates) \ {upstream}
    /\ announced' = FALSE
    /\ UNCHANGED <<file, runvars, unitvars>>

\* between two runs somebody edits or removes the state file
FileTouched ==
    /\ pc = "idle"
    /\ file' \in InitialFiles \ {file}
    /\ announced' = FALSE
    /\ UNCHANGED <<upstream, runvars, unitvars>>

Next ==
    \/ Start
    \/ Fetch
    \/ Latest
    \/ ReadState
    \/ Post
    \/ Persist
    \/ NextRun
    \/ UpstreamChanges
    \/ FileTouched

Spec == Init /\ [][Next]_vars

(***************************************************************************)
(* get_latest_date called on its own, as the tests call it                 *)
(***************************************************************************)
InitLatest ==
    /\ upstream = RespBadJson
    /\ file = NoFile
    /\ announced = FALSE
    /\ RunIdle
    /\ ucall = "none"
    /\ uprev = "none"
    /\ udata \in Payloads(MaxDates)
    /\ ustr = None
    /\ ures = None

CallGetLatestDate ==
    /\ ucall = "none"
    /\ ucall' = "get_latest_date"
    /\ ures' = get_latest_date(udata)
    /\ UNCHANGED <<envvars, runvars, uprev, udata, ustr>>

NextLatest == CallGetLatestDate

SpecLatest == InitLatest /\ [][NextLatest]_vars

(***************************************************************************)
(* write_latest_date and read_last_known_date called on their own          *)
(***************************************************************************)
\* the values written: the date strings, one with a newline, one of blanks alone
StoreStrings == DateStrings \cup {D_0501_nl, <<" ">>}

InitStore ==
    /\ upstream = RespBadJson
    /\ file \in InitialFiles
    /\ announced = FALSE
    /\ RunIdle
    /\ UnitIdle

\* ucall tells a write that raised SystemExit from one that returned
CallWrite ==
    /\ \E v \in StoreStrings, outcome \in WriteOutcomes :
        LET r == write_latest_date(file, v, outcome)
        IN  /\ file' = r.file
            /\ ucall' = IF r.exit THEN "write_latest_date exits" ELSE "write_latest_date"
            /\ ustr' = v
    /\ uprev' = ucall
    /\ ures' = None
    /\ UNCHANGED <<upstream, announced, runvars, udata>>

\* ucall tells a read that met an I/O fault from one that did not
CallRead ==
    /\ \E fault \in (IF file.exists THEN BOOLEAN ELSE {FALSE}) :
        /\ ures' = read_last_known_date(file, fault)
        /\ ucall' = IF fault THEN "read_last_known_date fault" ELSE "read_last_known_date"
    /\ uprev' = ucall
    /\ UNCHANGED <<envvars, runvars, udata, ustr>>

NextStore ==
    \/ CallWrite
    \/ CallRead

SpecStore == InitStore /\ [][NextStore]_vars

(***************************************************************************)
(* Properties                                                              *)
(***************************************************************************)
TraceHas(e) == \E i \in 1..Len(trace) : trace[i] = e

\* the POST went out and came back with 204
PostSucceeded == post_outcome = [raised |-> "none", status |-> 204]

\* the POST came back with a status other than 204 and nothing was raised
PostOtherStatus == post_outcome.raised = "none" /\ post_outcome.status \in {429, 200}

\* urlopen raised HTTPError or URLError
PostFatal == post_outcome.raised \in NetErrors

\* the run has read the state file and found it to hold the latest date
StateUnchanged == Truthy(latest_date) /\ last_known_date = latest_date

\* C1: a run that reads a persisted state equal to the latest date, without
\* --force-post, has ended with exit code 0 having made no POST and no write.
C1_UnchangedIsSilent ==
    (StateUnchanged /\ ~force_post) =>
        /\ pc = "exited"
        /\ exit_code = 0
        /\ trace = <<>>
        /\ file = file_at_start

\* C1, reached: the file holds the date and a newline, the run ends silent
C1_Witness ==
    /\ StateUnchanged
    /\ ~force_post
    /\ pc = "exited"
    /\ exit_code = 0
    /\ file = FileWith(D_0501_nl)

\* C2: a forced run that finds the persisted state equal to the latest date
\* POSTs and leaves the file as it was, write_latest_date not called, whatever
\* the POST met.
C2_ForcedPostKeepsState ==
    (StateUnchanged /\ force_post) =>
        /\ pc \in {"post", "persist", "exited"}
        /\ pc # "post" => trace = <<"POST">>
        /\ ~TraceHas("WRITE")
        /\ write_outcome = "none"
        /\ file = file_at_start

\* C2, reached: a forced post that failed, and one is enough: the run is over
C2_Witness ==
    /\ StateUnchanged
    /\ force_post
    /\ pc = "exited"
    /\ trace = <<"POST">>
    /\ PostFatal
    /\ file = file_at_start

\* C3 as stated: a run whose persisted state is none or differs from the latest
\* date and whose POST succeeds ends having POSTed once, then written, with the
\* file holding exactly the latest date and exit code 0.
C3_AsStated ==
    (pc = "exited" /\ date_changed /\ PostSucceeded) =>
        /\ trace = <<"POST", "WRITE">>
        /\ file = FileWith(latest_date)
        /\ exit_code = 0

\* C3 amended: such a run POSTs exactly once and before write_latest_date is
\* called; when the write succeeds the file holds exactly the latest date and
\* the exit code is 0, and when the write fails the exit code is 1.
C3_ChangedIsAnnouncedThenWritten ==
    (date_changed /\ PostSucceeded) =>
        /\ pc \in {"persist", "exited"}
        /\ pc = "persist" => trace = <<"POST">>
        /\ pc = "exited" =>
            /\ trace = <<"POST", "WRITE">>
            /\ write_outcome = "ok" => file = FileWith(latest_date) /\ exit_code = 0
            /\ write_outcome # "ok" => exit_code = 1

\* C3, reached: no state file, the POST answers 204, the file is created
C3_Witness ==
    /\ pc = "exited"
    /\ file_at_start = NoFile
    /\ last_known_date = None
    /\ date_changed
    /\ PostSucceeded
    /\ trace = <<"POST", "WRITE">>
    /\ file = FileWith(latest_date)
    /\ exit_code = 0

\* C4: when urlopen raises on the POST and --always-success is not set, the run
\* has ended with a nonzero exit code and the file is as the run found it.
C4_FatalPostExitsWithoutWrite ==
    (PostFatal /\ ~always_success) =>
        /\ pc = "exited"
        /\ exit_code # 0
        /\ ~TraceHas("WRITE")
        /\ file = file_at_start

\* C4, reached: the date had changed, the POST raised, nothing was written
C4_Witness ==
    /\ PostFatal
    /\ ~always_success
    /\ date_changed
    /\ pc = "exited"
    /\ exit_code = 1
    /\ file = file_at_start

\* C5 as stated: when urlopen raises on the POST under --always-success, the run
\* exits 0 and the file is written with the latest date exactly when the
\* persisted state differed from it.
C5_AsStated ==
    (pc = "exited" /\ PostFatal /\ always_success) =>
        /\ exit_code = 0
        /\ date_changed => file = FileWith(latest_date)
        /\ ~date_changed => file = file_at_start /\ ~TraceHas("WRITE")

\* C5 amended: under --always-success the failure of the POST is swallowed:
\* write_latest_date is called exactly when the persisted state differed from
\* the latest date; the run exits 0 with the file holding the latest date when
\* that write succeeds or with the file untouched when there is none, and
\* exits 1 when the write itself fails.
C5_FatalPostSwallowed ==
    (PostFatal /\ always_success) =>
        /\ pc \in {"persist", "exited"}
        /\ pc = "exited" =>
            /\ TraceHas("WRITE") <=> date_changed
            /\ ~date_changed => exit_code = 0 /\ file = file_at_start
            /\ (date_changed /\ write_outcome = "ok") =>
                   exit_code = 0 /\ file = FileWith(latest_date)
            /\ (date_changed /\ write_outcome # "ok") => exit_code = 1

\* C5, reached: the POST raised URLError, the run went on, wrote and exited 0
C5_Witness ==
    /\ pc = "exited"
    /\ post_outcome.raised = "URLError"
    /\ always_success
    /\ date_changed
    /\ exit_code = 0
    /\ file = FileWith(latest_date)

\* the run is past fetch_esi_compatibility_dates
FetchDone == pc \notin {"idle", "fetch"} /\ Truthy(webhook)

\* C6 as stated: a response that is valid JSON holding an object or a bare list
\* is returned by fetch to main.
C6_AsStated ==
    (FetchDone /\ upstream.net = "ok" /\ upstream.json
        /\ upstream.value.kind \in {"dict", "list"}) =>
        dates_data = upstream.value

\* C6 amended: fetch returns the parsed value when it is an object, and only
\* then; a bare list, any other JSON value, a body that is no JSON and a failed
\* GET end the run with exit code 1 before anything is posted or written.
C6_FetchReturnsObjectsOnly ==
    FetchDone =>
        IF upstream.net = "ok" /\ upstream.json /\ upstream.value.kind = "dict"
        THEN dates_data = upstream.value
        ELSE /\ pc = "exited"
             /\ exit_code = 1
             /\ dates_data = JNull
             /\ latest_date = None
             /\ trace = <<>>
             /\ file = file_at_start

\* C6, reached: the upstream sends the bare list ["2024-05-01"], the run exits 1
C6_Witness ==
    /\ FetchDone
    /\ upstream = RespJson(JList(<<D_0501>>))
    /\ pc = "exited"
    /\ exit_code = 1

AllParse(ds) == \A i \in 1..Len(ds) : parse_iso_date(ds[i]).ok

\* C7: on a bare list or an object wrapping one, non-empty and of strings that
\* all parse, get_latest_date returns an entry of the list, verbatim, whose date
\* no other entry's date exceeds; on None, [], {} and an object wrapping []
\* it returns None.
C7_LatestIsMaximalEntry ==
    ucall = "get_latest_date" =>
        LET ds == udata.dates
        IN  /\ ((udata = JList(ds) \/ udata = JDict(ds)) /\ ds # <<>> /\ AllParse(ds)) =>
                /\ \E i \in 1..Len(ds) : ures = ds[i]
                /\ \A j \in 1..Len(ds) :
                       ~DateLess(parse_iso_date(ures), parse_iso_date(ds[j]))
            /\ udata \in {JNull, JList(<<>>), JDict(<<>>), JDictEmpty} => ures = None

\* C7, reached: an object, the dates in no order, the time suffix kept
C7_Witness ==
    /\ ucall = "get_latest_date"
    /\ udata = JDict(<<D_0501, D_0615T, D_65>>)
    /\ ures = D_0615T

\* a read that met no fault right behind a write that returned
ReadBehindWrite == ucall = "read_last_known_date" /\ uprev = "write_latest_date"

\* v is not empty and neither starts nor ends with whitespace
Clean(v) == v # <<>> /\ ~IsSpace(v[1]) /\ ~IsSpace(v[Len(v)])

C9_AsStated ==
    (pc = "exited" /\ date_changed /\ PostOtherStatus) =>
        /\ trace = <<"POST", "WRITE">>
        /\ file = FileWith(latest_date)
        /\ exit_code = 0

\* C9 amended: such a run goes on as after a 204: one POST, no second one, then
\* write_latest_date; when the write succeeds the file holds the latest date and
\* the exit code is 0, and when the write fails the exit code is 1.
C9_OtherStatusIsTakenForSuccess ==
    (date_changed /\ PostOtherStatus) =>
        /\ pc \in {"persist", "exited"}
        /\ pc = "persist" => trace = <<"POST">>
        /\ pc = "exited" =>
            /\ trace = <<"POST", "WRITE">>
            /\ write_outcome = "ok" => file = FileWith(latest_date) /\ exit_code = 0
            /\ write_outcome # "ok" => exit_code = 1

\* C9, reached: the answer is 429, the state advances all the same
C9_Witness ==
    /\ pc = "exited"
    /\ date_changed
    /\ post_outcome.status = 429
    /\ trace = <<"POST", "WRITE">>
    /\ file = FileWith(latest_date)
    /\ exit_code = 0

\* C10: behind a run that exited 0 having written its latest date, with the
\* upstream and the file left alone, a run without --force-post whose read of
\* the file meets no fault makes no POST and no write.
C10_AnnouncedOnce == (announced /\ ~force_post /\ ~read_fault) => trace = <<>>

====
